---------------------------- MODULE Spec2Model ----------------------------
(***************************************************************************)
(* DeterministicRuleEngine v1.0.0-alpha                                    *)
(* (src/src/deterministic_rule_engine/engine_v1_0_0_alpha.py).             *)
(*                                                                         *)
(* A Python str is a sequence of characters; a character is a one-element  *)
(* atom written as a TLA+ string.  Non-ASCII characters are written by     *)
(* their code point ("U+FF1A" is the fullwidth colon).  Identifiers and    *)
(* block types are only ever compared for equality and are atoms.          *)
(***************************************************************************)
EXTENDS Integers, Sequences, FiniteSets, TLC

(***************************************************************************)
(* Characters                                                              *)
(***************************************************************************)
NL == "\n"
SP == " "
FWColon == "U+FF1A"
EAcuteUpper == "U+00C9"
EAcuteLower == "U+00E9"

\* The text "N/A" (the evidence sentinel), and Python's None: an atom that is
\* no character, so the value differs from every str.
NA == <<"N", "/", "A">>
None == <<"None">>

\* str.isspace for one character (what re's \s and str.strip() act on).
IsSpace(ch) == ch \in {SP, NL}

\* _FULLWIDTH_MAP applied to one character.
ToHalfwidthChar(ch) ==
    CASE ch = FWColon -> ":"
      [] ch = "U+FF08" -> "("
      [] ch = "U+FF09" -> ")"
      [] ch = "U+FF0C" -> ","
      [] ch = "U+3002" -> "."
      [] ch = "U+FF1B" -> ";"
      [] ch = "U+3010" -> "["
      [] ch = "U+3011" -> "]"
      [] ch = "U+FF05" -> "%"
      [] ch = "U+FF0B" -> "+"
      [] ch = "U+FF0D" -> "-"
      [] ch = "U+FF0F" -> "/"
      [] OTHER -> ch

\* str.lower() on one character of the alphabet in use.
LowerChar(ch) ==
    CASE ch = "A" -> "a"
      [] ch = "B" -> "b"
      [] ch = "C" -> "c"
      [] ch = "L" -> "l"
      [] ch = "M" -> "m"
      [] ch = "N" -> "n"
      [] ch = "P" -> "p"
      [] ch = "S" -> "s"
      [] ch = "W" -> "w"
      [] ch = EAcuteUpper -> EAcuteLower
      [] OTHER -> ch

\* ch.lower() if "A" <= ch <= "Z" else ch
AsciiLowerChar(ch) ==
    IF ch \in {EAcuteUpper, EAcuteLower} THEN ch ELSE LowerChar(ch)

(***************************************************************************)
(* Python str primitives                                                   *)
(***************************************************************************)
\* s[i..j] of a sequence, empty when j < i.
Slice(s, i, j) == IF j < i THEN <<>> ELSE SubSeq(s, i, j)

\* needle occurs in hay at (1-based) position i.
OccursAt(hay, needle, i) ==
    /\ i >= 1
    /\ i + Len(needle) - 1 <= Len(hay)
    /\ \A k \in 1..Len(needle) : hay[i + k - 1] = needle[k]

\* `needle in hay`.
Contains(hay, needle) == \E i \in 1..(Len(hay) + 1) : OccursAt(hay, needle, i)

\* hay.count(needle): non-overlapping occurrences, scanning left to right.
RECURSIVE CountFrom(_, _, _)
CountFrom(hay, needle, i) ==
    IF i + Len(needle) - 1 > Len(hay) THEN 0
    ELSE IF OccursAt(hay, needle, i)
         THEN 1 + CountFrom(hay, needle, i + (IF Len(needle) = 0 THEN 1 ELSE Len(needle)))
         ELSE CountFrom(hay, needle, i + 1)

StrCount(hay, needle) == CountFrom(hay, needle, 1)

\* s.strip()
RECURSIVE LStrip(_)
LStrip(s) == IF s # <<>> /\ IsSpace(Head(s)) THEN LStrip(Tail(s)) ELSE s

RECURSIVE RStrip(_)
RStrip(s) ==
    IF s # <<>> /\ IsSpace(s[Len(s)]) THEN RStrip(SubSeq(s, 1, Len(s) - 1)) ELSE s

Strip(s) == RStrip(LStrip(s))

\* re.sub(r"\s+", " ", s)
RECURSIVE CollapseWs(_)
CollapseWs(s) ==
    IF s = <<>> THEN <<>>
    ELSE IF IsSpace(Head(s))
         THEN <<SP>> \o CollapseWs(LStrip(s))
         ELSE <<Head(s)>> \o CollapseWs(Tail(s))

\* "sep".join(parts)
RECURSIVE Join(_, _)
Join(sep, parts) ==
    IF parts = <<>> THEN <<>>
    ELSE IF Len(parts) = 1 THEN parts[1]
    ELSE parts[1] \o sep \o Join(sep, Tail(parts))

\* s.lower()
StrLower(s) == [i \in 1..Len(s) |-> LowerChar(s[i])]

(***************************************************************************)
(* Helpers: normalization                                                  *)
(***************************************************************************)
_to_halfwidth(s) == [i \in 1..Len(s) |-> ToHalfwidthChar(s[i])]

\* norm_cfg = cfg.get("matching", {}).get("normalization", {})
NormCfg(cfg) == cfg.matching.normalization

normalize_for_match(s, cfg) ==
    IF s = None THEN <<>>
    ELSE LET a == IF NormCfg(cfg).fullwidth_to_halfwidth THEN _to_halfwidth(s) ELSE s
             b == IF NormCfg(cfg).collapse_whitespace THEN Strip(CollapseWs(a)) ELSE a
         IN  IF NormCfg(cfg).lowercase_for_match THEN StrLower(b) ELSE b

normalize_for_dedup_key(snippet) ==
    LET s == CollapseWs(Strip(snippet))
    IN  [i \in 1..Len(s) |-> AsciiLowerChar(s[i])]

(***************************************************************************)
(* Input values.  A field of an input object is absent, null, an integer   *)
(* or a string: [kind, n, s] with n the integer and s the string.          *)
(***************************************************************************)
JAbsent(dflt) == [kind |-> "absent", n |-> 0, s |-> dflt]
JNull(dflt) == [kind |-> "null", n |-> 0, s |-> dflt]
JInt(k) == [kind |-> "int", n |-> k, s |-> <<>>]
JStr(t) == [kind |-> "str", n |-> 0, s |-> t]

\* str(item.get(key, "")) for a text field: a str is kept, an absent key is
\* "", null is the text "None".
PyStrText(j) ==
    CASE j.kind = "str" -> j.s
      [] j.kind = "absent" -> <<>>
      [] j.kind = "null" -> <<"N", "o", "n", "e">>

\* The same for an identifier or a block type, which are atoms.
PyStrAtom(j) ==
    CASE j.kind = "str" -> j.s
      [] j.kind = "absent" -> ""
      [] j.kind = "null" -> "None"

Digits == {"0", "1", "2", "3", "4", "5", "6", "7", "8", "9"}

DigitValue(ch) ==
    CASE ch = "0" -> 0 [] ch = "1" -> 1 [] ch = "2" -> 2 [] ch = "3" -> 3
      [] ch = "4" -> 4 [] ch = "5" -> 5 [] ch = "6" -> 6 [] ch = "7" -> 7
      [] ch = "8" -> 8 [] OTHER -> 9

RECURSIVE DigitsValue(_)
DigitsValue(s) ==
    IF s = <<>> THEN 0 ELSE 10 * DigitsValue(SubSeq(s, 1, Len(s) - 1)) + DigitValue(s[Len(s)])

\* int(str): surrounding whitespace and one sign are accepted, then at least
\* one digit and nothing else; anything else raises ValueError.
IntOfStrRaises(s) ==
    LET t == Strip(s)
        d == IF t # <<>> /\ t[1] \in {"+", "-"} THEN Tail(t) ELSE t
    IN  d = <<>> \/ \E i \in 1..Len(d) : d[i] \notin Digits

IntOfStr(s) ==
    LET t == Strip(s)
        d == IF t # <<>> /\ t[1] \in {"+", "-"} THEN Tail(t) ELSE t
    IN  IF t # <<>> /\ t[1] = "-" THEN 0 - DigitsValue(d) ELSE DigitsValue(d)

\* `d.get(key, 1) or 1`: the value int() is applied to.  An absent key gives
\* the default 1; a falsy value (null, 0, "") gives 1.
ValueOrOne(j) ==
    CASE j.kind = "absent" -> JInt(1)
      [] j.kind = "null" -> JInt(1)
      [] j.kind = "int" -> IF j.n = 0 THEN JInt(1) ELSE j
      [] OTHER -> IF j.s = <<>> THEN JInt(1) ELSE j

\* int(d.get(key, 1) or 1) raises ValueError.
IntOrOneRaises(j) == ValueOrOne(j).kind = "str" /\ IntOfStrRaises(ValueOrOne(j).s)

\* int(d.get(key, 1) or 1) when it does not raise.
IntOrOne(j) ==
    IF ValueOrOne(j).kind = "int" THEN ValueOrOne(j).n ELSE IntOfStr(ValueOrOne(j).s)

(***************************************************************************)
(* Data extraction                                                         *)
(***************************************************************************)
Line(item) ==
    [line_id |-> PyStrAtom(item.line_id),
     text |-> PyStrText(item.text),
     source_page |-> IntOrOne(item.source_page)]

Block(b) ==
    [block_id |-> PyStrAtom(b.block_id),
     block_type |-> PyStrAtom(b.block_type),
     text_raw |-> PyStrText(b.text_raw),
     source_page |-> IntOrOne(b.source_page)]

\* The result of load_block_extractor_output: the pair (lines, blocks), or
\* the ValueError that int() raised on a source_page.
load_block_extractor_output(data) ==
    IF \/ \E i \in 1..Len(data.raw_text_lines) : IntOrOneRaises(data.raw_text_lines[i].source_page)
       \/ \E i \in 1..Len(data.blocks) : IntOrOneRaises(data.blocks[i].source_page)
    THEN [raised |-> TRUE, lines |-> <<>>, blocks |-> <<>>]
    ELSE [raised |-> FALSE,
          lines |-> [i \in 1..Len(data.raw_text_lines) |-> Line(data.raw_text_lines[i])],
          blocks |-> [i \in 1..Len(data.blocks) |-> Block(data.blocks[i])]]

\* page_text_raw after the loop over blocks[1..n]: the dict as the sequence
\* of its (page, text) items in insertion order.
RECURSIVE PageTextRaw(_, _)
PageTextRaw(blocks, n) ==
    IF n = 0 THEN <<>>
    ELSE LET prev == PageTextRaw(blocks, n - 1)
             b == blocks[n]
             withKey == IF \E i \in 1..Len(prev) : prev[i].page = b.source_page
                        THEN prev
                        ELSE Append(prev, [page |-> b.source_page, text |-> <<>>])
         IN  IF b.text_raw # <<>>
             THEN [i \in 1..Len(withKey) |->
                     IF withKey[i].page = b.source_page
                     THEN [withKey[i] EXCEPT !.text = @ \o b.text_raw \o <<NL>>]
                     ELSE withKey[i]]
             ELSE withKey

\* [b.text_raw for b in blocks if b.text_raw]
RECURSIVE NonEmptyTexts(_)
NonEmptyTexts(blocks) ==
    IF blocks = <<>> THEN <<>>
    ELSE (IF Head(blocks).text_raw # <<>> THEN <<Head(blocks).text_raw>> ELSE <<>>)
         \o NonEmptyTexts(Tail(blocks))

\* blocks_by_type.get(bt, [])
RECURSIVE BlocksOfType(_, _)
BlocksOfType(blocks, bt) ==
    IF blocks = <<>> THEN <<>>
    ELSE (IF Head(blocks).block_type = bt THEN <<Head(blocks)>> ELSE <<>>)
         \o BlocksOfType(Tail(blocks), bt)

build_scopes(lines, blocks) ==
    [global_text_raw |-> Join(<<NL>>, NonEmptyTexts(blocks)),
     page_text_raw |-> PageTextRaw(blocks, Len(blocks)),
     blocks |-> blocks]

(***************************************************************************)
(* Dictionary loading.  A regular expression is an alternation of literal  *)
(* strings, "ML|mL" being <<<<"M","L">>, <<"m","L">>>>; an empty           *)
(* alternative matches the empty string.  The pattern "" is the single     *)
(* empty alternative, and an entry without a pattern has NoPattern.        *)
(***************************************************************************)
NoPattern == <<>>
EmptyPattern == << <<>> >>

RegexPattern(name, pattern, flags) == [name |-> name, pattern |-> pattern, flags |-> flags]

\* The flags int, as the set of the flags that are set in it.
CompiledFlags(flags_list) == flags_list \cap {"IGNORECASE", "MULTILINE", "DOTALL"}

\* The names compile_regexes keeps: `if not pat: continue`.
CompiledNames(cfg) ==
    {name \in DOMAIN cfg.regex :
        cfg.regex[name].pattern # NoPattern /\ cfg.regex[name].pattern # EmptyPattern}

compile_regexes(cfg) ==
    [name \in CompiledNames(cfg) |->
        RegexPattern(name, cfg.regex[name].pattern, CompiledFlags(cfg.regex[name].flags))]

\* None where a RegexPattern is expected.
NoRegex == [name |-> "None", pattern |-> NoPattern, flags |-> {}]

\* regexes.get(rname): the pattern, or None.
RegexGet(regexes, rname) == IF rname \in DOMAIN regexes THEN regexes[rname] ELSE NoRegex

\* [str(k) for k in kws if str(k).strip()]
RECURSIVE NonBlank(_)
NonBlank(kws) ==
    IF kws = <<>> THEN <<>>
    ELSE (IF Strip(Head(kws)) # <<>> THEN <<Head(kws)>> ELSE <<>>) \o NonBlank(Tail(kws))

get_intent_keywords(cfg, intent_name) ==
    IF intent_name \in DOMAIN cfg.intents THEN NonBlank(cfg.intents[intent_name]) ELSE <<>>

(***************************************************************************)
(* Matching utilities                                                      *)
(***************************************************************************)
intent_match_any(text_norm, keywords, cfg) ==
    \E i \in 1..Len(keywords) :
        /\ normalize_for_match(keywords[i], cfg) # <<>>
        /\ Contains(text_norm, normalize_for_match(keywords[i], cfg))

\* Two characters match under the flags of a pattern.
CharMatches(a, b, flags) ==
    IF "IGNORECASE" \in flags THEN LowerChar(a) = LowerChar(b) ELSE a = b

\* The literal lit matches text at position i (1-based).
LiteralAt(text, lit, i, flags) ==
    /\ i + Len(lit) - 1 <= Len(text)
    /\ \A k \in 1..Len(lit) : CharMatches(text[i + k - 1], lit[k], flags)

\* The alternatives that match at i; with nonEmpty, only non-empty matches.
AltsAt(text, rx, i, nonEmpty) ==
    {a \in 1..Len(rx.pattern) :
        /\ LiteralAt(text, rx.pattern[a], i, rx.flags)
        /\ (nonEmpty => rx.pattern[a] # <<>>)}

\* The length of the match the engine finds at i (the first alternative, in
\* order, that matches there), or -1.
MatchLenAt(text, rx, i, nonEmpty) ==
    IF AltsAt(text, rx, i, nonEmpty) = {} THEN -1
    ELSE LET a == CHOOSE x \in AltsAt(text, rx, i, nonEmpty) :
                      \A y \in AltsAt(text, rx, i, nonEmpty) : x <= y
         IN  Len(rx.pattern[a])

\* re.finditer from position i: the matches as (start, end) with start
\* 1-based and end exclusive, left to right and non-overlapping.  After an
\* empty match the scan must advance: the next match at the same place is
\* non-empty, or starts one character on.
RECURSIVE FindIter(_, _, _, _)
FindIter(text, rx, i, mustAdvance) ==
    IF i > Len(text) + 1 THEN <<>>
    ELSE LET n == MatchLenAt(text, rx, i, mustAdvance)
         IN  IF n = -1 THEN FindIter(text, rx, i + 1, FALSE)
             ELSE <<[start |-> i, end |-> i + n]>>
                  \o FindIter(text, rx, i + n, n = 0)

regex_find_any(text, rx) == FindIter(text, rx, 1, FALSE)

\* bool(rx and regex_find_any(raw, rx))
RxAndFinds(raw, rx) == rx # NoRegex /\ regex_find_any(raw, rx) # <<>>

\* re.search(re.escape(keyword), original_text, flags=re.IGNORECASE): the
\* start of the leftmost match, or 0.
SearchIgnoreCase(original_text, keyword) ==
    IF \E i \in 1..(Len(original_text) + 1) : LiteralAt(original_text, keyword, i, {"IGNORECASE"})
    THEN CHOOSE i \in 1..(Len(original_text) + 1) :
            /\ LiteralAt(original_text, keyword, i, {"IGNORECASE"})
            /\ \A j \in 1..(i - 1) : ~LiteralAt(original_text, keyword, j, {"IGNORECASE"})
    ELSE 0

pick_evidence_snippet_for_keyword(original_text, keyword, cfg) ==
    IF original_text = <<>> THEN None
    ELSE IF Contains(original_text, keyword) THEN keyword
    ELSE IF SearchIgnoreCase(original_text, keyword) # 0
         THEN Slice(original_text, SearchIgnoreCase(original_text, keyword),
                    SearchIgnoreCase(original_text, keyword) + Len(keyword) - 1)
         ELSE None

pick_evidence_snippet_for_regex(original_text, rx) ==
    IF original_text = <<>> THEN None
    ELSE IF regex_find_any(original_text, rx) = <<>> THEN None
    ELSE LET m == regex_find_any(original_text, rx)[1]
         IN  Slice(original_text, m.start, m.end - 1)

(***************************************************************************)
(* Risk object construction                                                *)
(***************************************************************************)
DETECTION_METHOD == "rule_guardrail"

make_risk(risk_type, block_id, raw_snippet, risk_description, risk_logic) ==
    [risk_type |-> risk_type,
     detection_method |-> DETECTION_METHOD,
     evidence |-> [block_id |-> block_id, raw_snippet |-> raw_snippet],
     risk_description |-> risk_description,
     risk_logic |-> risk_logic]

(***************************************************************************)
(* Rule execution: rule_missing                                            *)
(***************************************************************************)
has_block_type(scopes, bt) == Len(BlocksOfType(scopes.blocks, bt)) > 0

has_intent(scopes, cfg, intent) ==
    intent_match_any(normalize_for_match(scopes.global_text_raw, cfg),
                     get_intent_keywords(cfg, intent), cfg)

has_regex(scopes, regexes, rname) ==
    IF RegexGet(regexes, rname) = NoRegex THEN FALSE
    ELSE Len(regex_find_any(scopes.global_text_raw, RegexGet(regexes, rname))) > 0

\* title_ok on the text as it is, not trimmed.
TitleOkUntrimmed(scopes) ==
    \E i \in 1..Len(BlocksOfType(scopes.blocks, "title")) :
        Len(BlocksOfType(scopes.blocks, "title")[i].text_raw) > 2

\* title_ok with the bound off by one: a title of two characters passes.
TitleOkFromTwo(scopes) ==
    \E i \in 1..Len(BlocksOfType(scopes.blocks, "title")) :
        Len(Strip(BlocksOfType(scopes.blocks, "title")[i].text_raw)) >= 2

\* title_ok after the loop over the title blocks.
TitleOk(scopes) ==
    \E i \in 1..Len(BlocksOfType(scopes.blocks, "title")) :
        Len(Strip(BlocksOfType(scopes.blocks, "title")[i].text_raw)) > 2

MissingRisk(risk_type, risk_description, risk_logic) ==
    make_risk(risk_type, "N/A", NA, risk_description, risk_logic)

\* One `if not (...): risks.append(...)` of rule_missing.
EmitIf(missing, risk) == IF missing THEN <<risk>> ELSE <<>>

rule_missing(scopes, cfg, regexes) ==
       EmitIf(~(\/ has_intent(scopes, cfg, "net_content_intent")
                \/ has_regex(scopes, regexes, "net_content_value")
                \/ has_regex(scopes, regexes, "net_content_multi")),
              MissingRisk("missing_net_content",
                  "Net content field not observed",
                  "No net content intent keywords or value patterns were detected in the extracted text"))
    \o EmitIf(~TitleOk(scopes),
              MissingRisk("missing_product_name",
                  "Product name (title) not observed",
                  "No valid title block was detected or title content is extremely short"))
    \o EmitIf(~(\/ has_intent(scopes, cfg, "ingredient_intent")
                \/ has_block_type(scopes, "ingredient")),
              MissingRisk("missing_ingredient_list",
                  "Ingredient list not observed",
                  "No ingredient intent keywords or ingredient block was detected"))
    \o EmitIf(~(\/ has_intent(scopes, cfg, "producer_intent")
                \/ has_block_type(scopes, "producer")),
              MissingRisk("missing_manufacturer_info",
                  "Producer/manufacturer information not observed",
                  "No producer intent keywords or producer block was detected"))
    \o EmitIf(~(\/ has_intent(scopes, cfg, "date_shelf_life_intent")
                \/ has_block_type(scopes, "date_shelf_life")
                \/ has_regex(scopes, regexes, "date_ymd_numeric")
                \/ has_regex(scopes, regexes, "date_ymd_cn")),
              MissingRisk("missing_date_shelf_life",
                  "Date or shelf-life information not observed",
                  "No date/shelf-life intent keywords or date patterns were detected"))
    \o EmitIf(~(\/ has_intent(scopes, cfg, "standard_label_intent")
                \/ has_block_type(scopes, "standard")
                \/ has_regex(scopes, regexes, "standard_code")),
              MissingRisk("missing_standard_code",
                  "Standard code not observed",
                  "No standard label intent keywords, standard block, or standard code pattern was detected"))
    \o EmitIf(~(\/ has_intent(scopes, cfg, "license_label_intent")
                \/ has_block_type(scopes, "license")
                \/ has_regex(scopes, regexes, "sc_code")),
              MissingRisk("missing_production_license",
                  "Production license (SC) not observed",
                  "No license intent keywords, license block, or SC code pattern was detected"))

(***************************************************************************)
(* Rule execution: rule_format                                             *)
(***************************************************************************)
\* None where a block id is expected: an atom that str() never yields.
NoneId == "<None>"

\* The blocks of the page whose text contains the snippet, by position.
BlocksContaining(blocks, snippet, page) ==
    {i \in 1..Len(blocks) :
        /\ blocks[i].source_page = page
        /\ blocks[i].text_raw # <<>>
        /\ Contains(blocks[i].text_raw, snippet)}

\* find_block_containing_snippet returning the last containing block.
find_last_block_containing_snippet(blocks, snippet, page) ==
    IF BlocksContaining(blocks, snippet, page) = {} THEN NoneId
    ELSE LET i == CHOOSE x \in BlocksContaining(blocks, snippet, page) :
                      \A y \in BlocksContaining(blocks, snippet, page) : x >= y
         IN  blocks[i].block_id

find_block_containing_snippet(blocks, snippet, page) ==
    IF BlocksContaining(blocks, snippet, page) = {} THEN NoneId
    ELSE LET i == CHOOSE x \in BlocksContaining(blocks, snippet, page) :
                      \A y \in BlocksContaining(blocks, snippet, page) : x <= y
         IN  blocks[i].block_id

\* `bid or "N/A"`: None and the empty id are both falsy.
OrNA(bid) == IF bid = NoneId \/ bid = "" THEN "N/A" ELSE bid

\* One unit-casing check of a page: rx_a and rx_b both match, the evidence is
\* the first match of rx_ev.
UnitCaseRisks(blocks, page, raw, rx_a, rx_b, rx_ev, risk_logic) ==
    IF RxAndFinds(raw, rx_a) /\ RxAndFinds(raw, rx_b)
    THEN LET snippet == pick_evidence_snippet_for_regex(raw, rx_ev)
         IN  IF snippet # None /\ snippet # <<>>
             THEN <<make_risk("format_unit_case_inconsistent",
                              OrNA(find_block_containing_snippet(blocks, snippet, page)),
                              snippet,
                              "Unit casing appears inconsistent within the same page scope",
                              risk_logic)>>
             ELSE <<>>
    ELSE <<>>

\* The first loop over page_text_raw.items(), pages[1..n]: the mL check, then
\* the L check, page after page.
RECURSIVE UnitCaseLoop(_, _, _, _)
UnitCaseLoop(blocks, pages, regexes, n) ==
    IF n = 0 THEN <<>>
    ELSE UnitCaseLoop(blocks, pages, regexes, n - 1)
         \o UnitCaseRisks(blocks, pages[n].page, pages[n].text,
                RegexGet(regexes, "unit_ml_upper"), RegexGet(regexes, "unit_ml_mixed"),
                RegexGet(regexes, "unit_ml_upper"),
                "Multiple casing variants for the same unit were detected in the same scope")
         \o UnitCaseRisks(blocks, pages[n].page, pages[n].text,
                RegexGet(regexes, "unit_l_upper"), RegexGet(regexes, "unit_l_lower"),
                RegexGet(regexes, "unit_l_lower"),
                "Both uppercase and lowercase variants of the same unit were detected in the same scope")

\* `for kw in kws: sn = pick_evidence_snippet_for_keyword(text, kw, cfg);
\*  if sn: snippet = sn; break`: the snippet, or None.
RECURSIVE FirstKeywordEvidence(_, _, _)
FirstKeywordEvidence(text, kws, cfg) ==
    IF kws = <<>> THEN None
    ELSE LET sn == pick_evidence_snippet_for_keyword(text, Head(kws), cfg)
         IN  IF sn # None /\ sn # <<>> THEN sn
             ELSE FirstKeywordEvidence(text, Tail(kws), cfg)

\* `snippet or default`
OrDefault(snippet, default) == IF snippet = None \/ snippet = <<>> THEN default ELSE snippet

\* The three label-present/value-absent rules (7.2.2, 7.2.3, 7.2.4): the
\* intent, its value regexes (None where the rule has one regex only), the
\* fallback token of lines 449, 473 and 497, and the finding's texts.
NetContentRule(cfg, regexes) ==
    [kws |-> get_intent_keywords(cfg, "net_content_intent"),
     rx_a |-> RegexGet(regexes, "net_content_value"),
     rx_b |-> RegexGet(regexes, "net_content_multi"),
     default |-> <<"U+51C0", "U+542B", "U+91CF">>,
     risk_type |-> "format_net_content_pattern_unusual",
     risk_description |-> "Net content label observed but value pattern not detected",
     risk_logic |-> "Net content-related label keyword was detected, but no numeric value+unit pattern was matched in the same scope"]

StandardRule(cfg, regexes) ==
    [kws |-> get_intent_keywords(cfg, "standard_label_intent"),
     rx_a |-> RegexGet(regexes, "standard_code"),
     rx_b |-> NoRegex,
     default |-> <<"U+6267", "U+884C", "U+6807", "U+51C6">>,
     risk_type |-> "format_standard_code_pattern_unusual",
     risk_description |-> "Standard label observed but standard code pattern not detected",
     risk_logic |-> "Standard-related label keyword was detected, but no standard-code-like token was matched in the same scope"]

LicenseRule(cfg, regexes) ==
    [kws |-> get_intent_keywords(cfg, "license_label_intent"),
     rx_a |-> RegexGet(regexes, "sc_code"),
     rx_b |-> NoRegex,
     default |-> <<"S", "C">>,
     risk_type |-> "format_license_code_pattern_unusual",
     risk_description |-> "License label observed but SC code pattern not detected",
     risk_logic |-> "License-related label keyword was detected, but no SC-code-like token was matched in the same scope"]

\* The check of a page with the first value regex only.
LabelRisksFirstRegexOnly(blocks, cfg, page, raw, rule) ==
    IF /\ intent_match_any(normalize_for_match(raw, cfg), rule.kws, cfg)
       /\ ~RxAndFinds(raw, rule.rx_a)
    THEN LET snippet == OrDefault(FirstKeywordEvidence(raw, rule.kws, cfg), rule.default)
         IN  <<make_risk(rule.risk_type,
                         OrNA(find_block_containing_snippet(blocks, snippet, page)),
                         snippet, rule.risk_description, rule.risk_logic)>>
    ELSE <<>>

\* One label-present/value-absent check of a page.
LabelRisks(blocks, cfg, page, raw, rule) ==
    IF /\ intent_match_any(normalize_for_match(raw, cfg), rule.kws, cfg)
       /\ ~(RxAndFinds(raw, rule.rx_a) \/ RxAndFinds(raw, rule.rx_b))
    THEN LET snippet == OrDefault(FirstKeywordEvidence(raw, rule.kws, cfg), rule.default)
         IN  <<make_risk(rule.risk_type,
                         OrNA(find_block_containing_snippet(blocks, snippet, page)),
                         snippet, rule.risk_description, rule.risk_logic)>>
    ELSE <<>>

\* A loop `for page, raw in page_text_raw.items()` of a label rule, over
\* pages[1..n].
RECURSIVE LabelLoop(_, _, _, _, _)
LabelLoop(blocks, cfg, pages, n, rule) ==
    IF n = 0 THEN <<>>
    ELSE LabelLoop(blocks, cfg, pages, n - 1, rule)
         \o LabelRisks(blocks, cfg, pages[n].page, pages[n].text, rule)

rule_format(scopes, cfg, regexes) ==
       UnitCaseLoop(scopes.blocks, scopes.page_text_raw, regexes, Len(scopes.page_text_raw))
    \o LabelLoop(scopes.blocks, cfg, scopes.page_text_raw, Len(scopes.page_text_raw),
                 NetContentRule(cfg, regexes))
    \o LabelLoop(scopes.blocks, cfg, scopes.page_text_raw, Len(scopes.page_text_raw),
                 StandardRule(cfg, regexes))
    \o LabelLoop(scopes.blocks, cfg, scopes.page_text_raw, Len(scopes.page_text_raw),
                 LicenseRule(cfg, regexes))

(***************************************************************************)
(* Rule execution: rule_relationship                                       *)
(***************************************************************************)
\* The (snippet, block_id) of the first block, then the first keyword, with
\* evidence; (None, None) when there is none.
RECURSIVE pick_first_keyword_evidence_in_blocks(_, _, _)
pick_first_keyword_evidence_in_blocks(blocks, keywords, cfg) ==
    IF blocks = <<>> THEN [snippet |-> None, bid |-> NoneId]
    ELSE IF /\ Head(blocks).text_raw # <<>>
            /\ FirstKeywordEvidence(Head(blocks).text_raw, keywords, cfg) # None
         THEN [snippet |-> FirstKeywordEvidence(Head(blocks).text_raw, keywords, cfg),
               bid |-> Head(blocks).block_id]
         ELSE pick_first_keyword_evidence_in_blocks(Tail(blocks), keywords, cfg)

\* thresholds.get(name, 1), thresholds being cfg.get("thresholds", {}) or {}
ThresholdGet(cfg, name) ==
    IF name \in DOMAIN cfg.thresholds THEN cfg.thresholds[name] ELSE JAbsent(<<>>)

weak_max(cfg) == IntOrOne(ThresholdGet(cfg, "entrust_weak_trigger_max_count"))

prod_min(cfg) ==
    IntOrOne(ThresholdGet(cfg, "producer_context_keyword_min_hits_for_weak_entrust"))

\* weak_count after the loop over kws_weak.
RECURSIVE weak_count(_, _, _)
weak_count(global_norm, kws_weak, cfg) ==
    IF kws_weak = <<>> THEN 0
    ELSE (IF normalize_for_match(Head(kws_weak), cfg) # <<>>
          THEN StrCount(global_norm, normalize_for_match(Head(kws_weak), cfg))
          ELSE 0)
         + weak_count(global_norm, Tail(kws_weak), cfg)

contains_weak(b, kws_weak, cfg) ==
    \E i \in 1..Len(kws_weak) :
        Contains(normalize_for_match(b.text_raw, cfg), normalize_for_match(kws_weak[i], cfg))

\* hits after the loop over kws_producer.
RECURSIVE hits(_, _, _)
hits(b, kws_producer, cfg) ==
    IF kws_producer = <<>> THEN 0
    ELSE (IF /\ normalize_for_match(Head(kws_producer), cfg) # <<>>
             /\ Contains(normalize_for_match(b.text_raw, cfg),
                         normalize_for_match(Head(kws_producer), cfg))
          THEN 1 ELSE 0)
         + hits(b, Tail(kws_producer), cfg)

\* The blocks the weak-trigger loop stops at, by position.
WeakBlocks(blocks, cfg) ==
    {i \in 1..Len(blocks) :
        /\ contains_weak(blocks[i], get_intent_keywords(cfg, "entrusted_party_weak_intent"), cfg)
        /\ hits(blocks[i], get_intent_keywords(cfg, "producer_intent"), cfg) >= prod_min(cfg)}

StrongRisk(blocks, kws_strong, cfg) ==
    LET ev == pick_first_keyword_evidence_in_blocks(blocks, kws_strong, cfg)
    IN  make_risk("incomplete_entrust_relationship",
            OrNA(ev.bid),
            IF kws_strong # <<>>
            THEN OrDefault(ev.snippet, kws_strong[1])
            ELSE <<"U+53D7", "U+59D4", "U+6258", "U+751F", "U+4EA7">>,
            "Entrust-production context observed but principal party not observed",
            "Strong entrust-production keywords were detected, but no principal-party keywords were detected in the extracted text")

WeakRisk(b, kws_weak, cfg) ==
    make_risk("entrusted_context_ambiguous",
        b.block_id,
        OrDefault(FirstKeywordEvidence(b.text_raw, kws_weak, cfg), kws_weak[1]),
        "Ambiguous entrust-production wording observed in producer context",
        "Weak entrust keywords were detected in a producer-context block, while no principal-party keywords were detected; this is treated as an ambiguous relationship signal")

\* rule_relationship without the short circuit: the strong finding does not
\* end the rule, and the weak trigger no longer asks for `not has_strong`.
rule_relationship_no_short_circuit(scopes, cfg, regexes) ==
    LET global_norm == normalize_for_match(scopes.global_text_raw, cfg)
        kws_strong == get_intent_keywords(cfg, "entrusted_party_strong_intent")
        kws_weak == get_intent_keywords(cfg, "entrusted_party_weak_intent")
        has_principal ==
            intent_match_any(global_norm, get_intent_keywords(cfg, "principal_party_intent"), cfg)
        has_strong == intent_match_any(global_norm, kws_strong, cfg)
    IN  (IF has_strong /\ ~has_principal
         THEN <<StrongRisk(scopes.blocks, kws_strong, cfg)>> ELSE <<>>)
        \o (IF /\ ~has_principal
               /\ weak_count(global_norm, kws_weak, cfg) > 0
               /\ weak_count(global_norm, kws_weak, cfg) <= weak_max(cfg)
               /\ WeakBlocks(scopes.blocks, cfg) # {}
            THEN LET i == CHOOSE x \in WeakBlocks(scopes.blocks, cfg) :
                              \A y \in WeakBlocks(scopes.blocks, cfg) : x <= y
                 IN  <<WeakRisk(scopes.blocks[i], kws_weak, cfg)>>
            ELSE <<>>)

rule_relationship(scopes, cfg, regexes) ==
    LET blocks == scopes.blocks
        global_norm == normalize_for_match(scopes.global_text_raw, cfg)
        kws_principal == get_intent_keywords(cfg, "principal_party_intent")
        kws_strong == get_intent_keywords(cfg, "entrusted_party_strong_intent")
        kws_weak == get_intent_keywords(cfg, "entrusted_party_weak_intent")
        has_principal == intent_match_any(global_norm, kws_principal, cfg)
        has_strong == intent_match_any(global_norm, kws_strong, cfg)
    IN  IF has_strong /\ ~has_principal
        THEN <<StrongRisk(blocks, kws_strong, cfg)>>
        ELSE IF /\ ~has_strong
                /\ ~has_principal
                /\ weak_count(global_norm, kws_weak, cfg) > 0
                /\ weak_count(global_norm, kws_weak, cfg) <= weak_max(cfg)
                /\ WeakBlocks(blocks, cfg) # {}
             THEN LET i == CHOOSE x \in WeakBlocks(blocks, cfg) :
                               \A y \in WeakBlocks(blocks, cfg) : x <= y
                  IN  <<WeakRisk(blocks[i], kws_weak, cfg)>>
             ELSE <<>>

(***************************************************************************)
(* Engine.  run_engine is followed statement by statement: pc names the    *)
(* statement to run next, "done" that the call returned `result` and       *)
(* "raised" that it raised.  log records, in order, the arguments and the  *)
(* outcome of every call that has ended.                                   *)
(***************************************************************************)
VARIABLES block_extractor_json, patterns_cfg, pc, lines, blocks, scopes, regexes,
          risks, result, log

vars == <<block_extractor_json, patterns_cfg, pc, lines, blocks, scopes, regexes,
          risks, result, log>>

args == <<block_extractor_json, patterns_cfg>>

(***************************************************************************)
(* Deduplication.  A key is the str rt, or rt + "||" + the normalized      *)
(* snippet: the sequence of the risk type (an atom) and the characters     *)
(* that follow it.                                                         *)
(***************************************************************************)
DedupKey(r) ==
    IF r.evidence.raw_snippet = NA THEN <<r.risk_type>>
    ELSE <<r.risk_type, "|", "|">> \o normalize_for_dedup_key(r.evidence.raw_snippet)

\* (seen, out) after the loop over the first n risks, seen being seen0 before.
RECURSIVE DedupLoop(_, _, _)
DedupLoop(risk_list, n, seen0) ==
    IF n = 0 THEN [seen |-> seen0, out |-> <<>>]
    ELSE LET prev == DedupLoop(risk_list, n - 1, seen0)
         IN  IF DedupKey(risk_list[n]) \in prev.seen THEN prev
             ELSE [seen |-> prev.seen \cup {DedupKey(risk_list[n])},
                   out |-> Append(prev.out, risk_list[n])]

\* deduplicate with the key taken from the raw snippet, not normalized.
RECURSIVE DedupLoopRawKey(_, _)
DedupLoopRawKey(risk_list, n) ==
    IF n = 0 THEN [seen |-> {}, out |-> <<>>]
    ELSE LET prev == DedupLoopRawKey(risk_list, n - 1)
             key == <<risk_list[n].risk_type, "|", "|">> \o risk_list[n].evidence.raw_snippet
         IN  IF key \in prev.seen THEN prev
             ELSE [seen |-> prev.seen \cup {key}, out |-> Append(prev.out, risk_list[n])]

deduplicate_raw_key(risk_list) == DedupLoopRawKey(risk_list, Len(risk_list)).out

\* deduplicate keeping the last finding of each key: the loop runs over the
\* list from its end, and the kept findings are put back in list order.
RECURSIVE DedupLoopKeepLast(_, _)
DedupLoopKeepLast(risk_list, n) ==
    IF n > Len(risk_list) THEN [seen |-> {}, out |-> <<>>]
    ELSE LET later == DedupLoopKeepLast(risk_list, n + 1)
         IN  IF DedupKey(risk_list[n]) \in later.seen THEN later
             ELSE [seen |-> later.seen \cup {DedupKey(risk_list[n])},
                   out |-> <<risk_list[n]>> \o later.out]

deduplicate_keep_last(risk_list) == DedupLoopKeepLast(risk_list, 1).out

\* deduplicate with a seen set that outlives the call: the keys of the
\* findings returned by the calls before are seen already.
deduplicate_shared_seen(risk_list) ==
    DedupLoop(risk_list, Len(risk_list),
              UNION {{DedupKey(log[c].result.risk_list[i]) :
                         i \in 1..Len(log[c].result.risk_list)} : c \in 1..Len(log)}).out

deduplicate(risk_list) == DedupLoop(risk_list, Len(risk_list), {}).out

SYSTEM_VERSION == "v1.0.0-alpha"
MODULE_NAME == "DeterministicRuleEngine"
MODULE_VERSION == "v1.0.0-alpha"
SPEC_VERSION == "v1.0.0-alpha"
SCHEMA_VERSION == "draft-2020-12"

\* A local that is not bound yet.
Unbound == <<>>
NoScopes == [global_text_raw |-> <<>>, page_text_raw |-> <<>>, blocks |-> <<>>]
NoRegexes == [name \in {} |-> NoRegex]
NoResult == [risk_list |-> <<>>, dict_version |-> "", returned |-> FALSE]

\* log after the call that is running ended at p with result r.
Logged(p, r) ==
    Append(log, [json |-> block_extractor_json, cfg |-> patterns_cfg,
                 raised |-> p = "raised", result |-> r])

\* The frame of a call of run_engine(json, cfg) at its first statement.
Entry(json, cfg) ==
    /\ block_extractor_json = json
    /\ patterns_cfg = cfg
    /\ pc = "load"
    /\ lines = Unbound
    /\ blocks = Unbound
    /\ scopes = NoScopes
    /\ regexes = NoRegexes
    /\ risks = Unbound
    /\ result = NoResult

\* lines, blocks = load_block_extractor_output(block_extractor_json)
Load ==
    /\ pc = "load"
    /\ LET loaded == load_block_extractor_output(block_extractor_json)
       IN  IF loaded.raised
           THEN /\ pc' = "raised"
                /\ log' = Logged("raised", NoResult)
                /\ UNCHANGED <<lines, blocks>>
           ELSE /\ pc' = "build_scopes"
                /\ lines' = loaded.lines
                /\ blocks' = loaded.blocks
                /\ UNCHANGED log
    /\ UNCHANGED <<args, scopes, regexes, risks, result>>

\* scopes = build_scopes(lines, blocks)
BuildScopes ==
    /\ pc = "build_scopes"
    /\ scopes' = build_scopes(lines, blocks)
    /\ pc' = "compile_regexes"
    /\ UNCHANGED <<args, lines, blocks, regexes, risks, result, log>>

\* regexes = compile_regexes(patterns_cfg); risks = []
CompileRegexes ==
    /\ pc = "compile_regexes"
    /\ regexes' = compile_regexes(patterns_cfg)
    /\ risks' = <<>>
    /\ pc' = "rule_missing"
    /\ UNCHANGED <<args, lines, blocks, scopes, result, log>>

\* risks.extend(rule_missing(scopes, patterns_cfg, regexes))
RuleMissing ==
    /\ pc = "rule_missing"
    /\ risks' = risks \o rule_missing(scopes, patterns_cfg, regexes)
    /\ pc' = "rule_format"
    /\ UNCHANGED <<args, lines, blocks, scopes, regexes, result, log>>

\* risks.extend(rule_format(scopes, patterns_cfg, regexes))
RuleFormat ==
    /\ pc = "rule_format"
    /\ risks' = risks \o rule_format(scopes, patterns_cfg, regexes)
    /\ pc' = "rule_relationship"
    /\ UNCHANGED <<args, lines, blocks, scopes, regexes, result, log>>

\* risks.extend(rule_relationship(scopes, patterns_cfg, regexes))
RuleRelationship ==
    /\ pc = "rule_relationship"
    /\ risks' = risks \o rule_relationship(scopes, patterns_cfg, regexes)
    /\ pc' = "deduplicate"
    /\ UNCHANGED <<args, lines, blocks, scopes, regexes, result, log>>

\* risks = deduplicate(risks)
Deduplicate ==
    /\ pc = "deduplicate"
    /\ risks' = deduplicate(risks)
    /\ pc' = "return"
    /\ UNCHANGED <<args, lines, blocks, scopes, regexes, result, log>>

\* str(patterns_cfg.get("dict_version", "v1.0.0-alpha"))
DictVersion(cfg) ==
    IF cfg.dict_version.kind = "absent" THEN "v1.0.0-alpha" ELSE PyStrAtom(cfg.dict_version)

\* The result envelope of lines 643-652.
Envelope(cfg, risk_list) ==
    [system_version |-> SYSTEM_VERSION,
     module_name |-> MODULE_NAME,
     module_version |-> MODULE_VERSION,
     spec_version |-> SPEC_VERSION,
     dict_version |-> DictVersion(cfg),
     schema_version |-> SCHEMA_VERSION,
     detection_method |-> DETECTION_METHOD,
     risk_list |-> risk_list,
     returned |-> TRUE]

\* return {...}
Return ==
    /\ pc = "return"
    /\ result' = Envelope(patterns_cfg, risks)
    /\ pc' = "done"
    /\ log' = Logged("done", Envelope(patterns_cfg, risks))
    /\ UNCHANGED <<args, lines, blocks, scopes, regexes, risks>>

Next ==
    \/ Load
    \/ BuildScopes
    \/ CompileRegexes
    \/ RuleMissing
    \/ RuleFormat
    \/ RuleRelationship
    \/ Deduplicate
    \/ Return

(***************************************************************************)
(* Inputs.  Documents are the sequences of at most MaxBlocks blocks drawn  *)
(* from a pool of (block_type, text_raw) pairs, on pages 1..MaxPage; the   *)
(* block at position i has the id "b<i>", or no id where the document      *)
(* leaves the ids out.                                                     *)
(***************************************************************************)
MaxBlocks == 2
MaxPage == 2

BlockId(i) == "b" \o ToString(i)

RawBlocks(pool, pages) ==
    {[block_type |-> JStr(e[1]), text_raw |-> JStr(e[2]), source_page |-> JInt(pg)] :
        e \in pool, pg \in pages}

BlockSeqs(pool, pages) ==
    UNION {[1..n -> RawBlocks(pool, pages)] : n \in 0..MaxBlocks}

WithIds(bs, withId) ==
    [i \in 1..Len(bs) |->
        [block_id |-> IF withId THEN JStr(BlockId(i)) ELSE JAbsent(""),
         block_type |-> bs[i].block_type,
         text_raw |-> bs[i].text_raw,
         source_page |-> bs[i].source_page]]

Docs(pool, pages, idChoices) ==
    {[raw_text_lines |-> <<>>, blocks |-> WithIds(bs, withId)] :
        bs \in BlockSeqs(pool, pages), withId \in idChoices}

NormOff ==
    [fullwidth_to_halfwidth |-> FALSE, collapse_whitespace |-> FALSE,
     lowercase_for_match |-> FALSE]
NormLower == [NormOff EXCEPT !.lowercase_for_match = TRUE]
NormAll ==
    [fullwidth_to_halfwidth |-> TRUE, collapse_whitespace |-> TRUE,
     lowercase_for_match |-> TRUE]

Rx(pattern) == [pattern |-> pattern, flags |-> {}]
RxI(pattern) == [pattern |-> pattern, flags |-> {"IGNORECASE"}]

NoThresholds == [name \in {} |-> JInt(1)]

Cfg(normalization, intents, regex, thresholds) ==
    [matching |-> [normalization |-> normalization], intents |-> intents, regex |-> regex,
     thresholds |-> thresholds, dict_version |-> JStr("d1")]

(***************************************************************************)
(* Spec: the format rules.  Volume units in three casings, a net-content   *)
(* label "n" (also written "N") with no value, and a strong entrustment    *)
(* keyword.                                                                *)
(***************************************************************************)
FormatPool ==
    {<<"other", <<"M", "L">>>>, <<"other", <<"m", "L">>>>, <<"other", <<"l">>>>,
     <<"other", <<"n">>>>, <<"other", <<"N">>>>, <<"producer", <<"s", "N">>>>,
     <<"other", <<>>>>}

FormatIntents ==
    "net_content_intent" :> << <<"n">> >> @@ "entrusted_party_strong_intent" :> << <<"s">> >>

UnitRegexes ==
    "unit_ml_upper" :> Rx(<< <<"M", "L">> >>) @@ "unit_ml_mixed" :> Rx(<< <<"m", "L">> >>)
    @@ "unit_l_upper" :> Rx(<< <<"L">> >>) @@ "unit_l_lower" :> Rx(<< <<"l">> >>)

FormatCfgs ==
    {Cfg(NormOff, FormatIntents, UnitRegexes, NoThresholds),
     \* lower-casing for intent matching; the litre pattern ignores case
     Cfg(NormLower, FormatIntents,
         "unit_l_lower" :> RxI(<< <<"l">> >>) @@ UnitRegexes, NoThresholds),
     \* "ML|": the upper-case pattern also matches the empty string
     Cfg(NormOff, FormatIntents,
         "unit_ml_upper" :> Rx(<< <<"M", "L">>, <<>> >>) @@ UnitRegexes, NoThresholds),
     \* "\nl|l": the lower-case pattern takes the white space before the unit
     Cfg(NormOff, FormatIntents,
         "unit_l_lower" :> Rx(<< <<NL, "l">>, <<"l">> >>) @@ UnitRegexes, NoThresholds),
     \* only one pattern of each pair is configured
     Cfg(NormOff, FormatIntents,
         "unit_ml_upper" :> Rx(<< <<"M", "L">> >>) @@ "unit_l_lower" :> RxI(<< <<"l">> >>),
         NoThresholds),
     \* "ML|L": the upper-case millilitre pattern also takes a bare "L"
     Cfg(NormOff, FormatIntents,
         "unit_ml_upper" :> Rx(<< <<"M", "L">>, <<"L">> >>) @@ UnitRegexes, NoThresholds)}

Init ==
    /\ \E json \in Docs(FormatPool, 1..MaxPage, {TRUE, FALSE}), cfg \in FormatCfgs : Entry(json, cfg)
    /\ log = <<>>

Spec == Init /\ [][Next]_vars

(***************************************************************************)
(* SpecRel: the relationship rule.  Keywords: strong "s", principal "p",   *)
(* weak "w", producer "f"; in the dictionaries written with a halfwidth    *)
(* colon the strong keyword is "s:" and the weak one "w:", and the label   *)
(* prints the colon fullwidth.  The two thresholds are absent, 0, 1 or 2.  *)
(***************************************************************************)
RelPool ==
    {<<"other", <<"s">>>>, <<"other", <<"p">>>>, <<"other", <<"w">>>>,
     <<"producer", <<"w", "f">>>>, <<"other", <<"W">>>>,
     <<"other", <<"s", FWColon>>>>, <<"producer", <<"w", FWColon, "f">>>>}

RelIntents ==
    "principal_party_intent" :> << <<"p">> >>
    @@ "entrusted_party_strong_intent" :> << <<"s">> >>
    @@ "entrusted_party_weak_intent" :> << <<"w">> >>
    @@ "producer_intent" :> << <<"f">> >>

RelIntentsColon ==
    "principal_party_intent" :> << <<"p">> >>
    @@ "entrusted_party_strong_intent" :> << <<"s", ":">> >>
    @@ "entrusted_party_weak_intent" :> << <<"w", ":">> >>
    @@ "producer_intent" :> << <<"f">> >>

ThresholdChoices == {JAbsent(<<>>), JInt(0), JInt(1), JInt(2)}

Thresholds(wmax, pmin) ==
    LET a == IF wmax.kind = "absent" THEN NoThresholds
             ELSE "entrust_weak_trigger_max_count" :> wmax
        b == IF pmin.kind = "absent" THEN NoThresholds
             ELSE "producer_context_keyword_min_hits_for_weak_entrust" :> pmin
    IN  a @@ b

RelCfgs ==
    {Cfg(m[1], m[2], NoRegexes, Thresholds(wmax, pmin)) :
        m \in {<<NormOff, RelIntents>>, <<NormLower, RelIntents>>, <<NormAll, RelIntentsColon>>},
        wmax \in ThresholdChoices, pmin \in ThresholdChoices}

InitRel ==
    /\ \E json \in Docs(RelPool, {1}, {TRUE}), cfg \in RelCfgs : Entry(json, cfg)
    /\ log = <<>>

SpecRel == InitRel /\ [][Next]_vars

(***************************************************************************)
(* SpecMissing: the missing-field rule.  One pool entry for each disjunct  *)
(* of each signal: an intent keyword, a typed block, a text a regex hits.  *)
(* Keywords: net content "n", ingredient "i", producer "f", date "d",      *)
(* standard "g", license "c".  Patterns: net_content_value "5",            *)
(* net_content_multi "6", date_ymd_numeric "1", date_ymd_cn "2",           *)
(* standard_code "G", sc_code "SC".                                        *)
(***************************************************************************)
MissingPool ==
    {<<"other", <<"n">>>>, <<"other", <<"5">>>>, <<"other", <<"6">>>>,
     <<"title", <<"A", "B", "C">>>>, <<"title", <<"A", "B">>>>,
     <<"ingredient", <<>>>>, <<"other", <<"i">>>>,
     <<"producer", <<>>>>, <<"other", <<"f">>>>,
     <<"date_shelf_life", <<>>>>, <<"other", <<"d">>>>,
     <<"other", <<"1">>>>, <<"other", <<"2">>>>,
     <<"standard", <<>>>>, <<"other", <<"g">>>>, <<"other", <<"G">>>>,
     <<"license", <<>>>>, <<"other", <<"c">>>>, <<"other", <<"S", "C">>>>}

MissingIntents ==
    "net_content_intent" :> << <<"n">> >>
    @@ "ingredient_intent" :> << <<"i">> >>
    @@ "producer_intent" :> << <<"f">> >>
    @@ "date_shelf_life_intent" :> << <<"d">> >>
    @@ "standard_label_intent" :> << <<"g">> >>
    @@ "license_label_intent" :> << <<"c">> >>

MissingRegexes ==
    "net_content_value" :> Rx(<< <<"5">> >>)
    @@ "net_content_multi" :> Rx(<< <<"6">> >>)
    @@ "date_ymd_numeric" :> Rx(<< <<"1">> >>)
    @@ "date_ymd_cn" :> Rx(<< <<"2">> >>)
    @@ "standard_code" :> Rx(<< <<"G">> >>)
    @@ "sc_code" :> RxI(<< <<"S", "C">> >>)

NoIntents == [name \in {} |-> <<>>]

MissingCfgs ==
    {Cfg(NormOff, MissingIntents, MissingRegexes, NoThresholds),
     Cfg(NormLower, MissingIntents, MissingRegexes, NoThresholds),
     \* a dictionary with no intents and no patterns
     Cfg(NormOff, NoIntents, NoRegexes, NoThresholds),
     \* "5|": the net-content value pattern also matches the empty string
     Cfg(NormOff, MissingIntents,
         "net_content_value" :> Rx(<< <<"5">>, <<>> >>) @@ MissingRegexes, NoThresholds)}

InitMissing ==
    /\ \E json \in Docs(MissingPool, {1}, {TRUE}), cfg \in MissingCfgs : Entry(json, cfg)
    /\ log = <<>>

SpecMissing == InitMissing /\ [][Next]_vars

(***************************************************************************)
(* SpecDedup: the calls of Spec, and deduplicate applied to any list of at *)
(* most MaxRisks findings drawn from two risk types, two blocks and the    *)
(* snippets "N/A", "ML", "mL", "M L" and "M\nL".                           *)
(***************************************************************************)
MaxRisks == 3

AnyFindings ==
    {make_risk(rt, bid, sn, "", "") :
        rt \in {"missing_net_content", "format_unit_case_inconsistent"},
        bid \in {"b1", "b2"},
        sn \in {NA, <<"M", "L">>, <<"m", "L">>, <<"M", SP, "L">>, <<"M", NL, "L">>}}

AnyRisks == UNION {[1..n -> AnyFindings] : n \in 0..MaxRisks}

\* deduplicate is about to be applied to a list.
InitDedup ==
    /\ block_extractor_json = [raw_text_lines |-> <<>>, blocks |-> <<>>]
    /\ patterns_cfg = Cfg(NormOff, NoIntents, NoRegexes, NoThresholds)
    /\ pc = "deduplicate"
    /\ lines = Unbound
    /\ blocks = Unbound
    /\ scopes = NoScopes
    /\ regexes = NoRegexes
    /\ risks \in AnyRisks
    /\ result = NoResult
    /\ log = <<>>

SpecDedup == (Init \/ InitDedup) /\ [][Next]_vars

(***************************************************************************)
(* SpecLoad: documents whose lines and blocks leave fields out or give     *)
(* them other values than the data model's.  An id is absent, null or a    *)
(* string; a source_page is absent, null, 0, 2, "2", "" or "x".            *)
(***************************************************************************)
MaxLines == 1

PageChoices ==
    {JAbsent(<<>>), JNull(<<>>), JInt(0), JInt(2), JStr(<<"2">>), JStr(<<>>), JStr(<<"x">>)}

LoadBlocks ==
    {[block_id |-> id, block_type |-> JStr("title"), text_raw |-> JStr(<<"A", "B", "C">>),
      source_page |-> pg] :
        id \in {JAbsent(""), JNull(""), JStr("b1")}, pg \in PageChoices}

LoadLines ==
    {[line_id |-> id, text |-> JStr(<<"A", "B", "C">>), source_page |-> pg] :
        id \in {JAbsent(""), JStr("l1")}, pg \in {JAbsent(<<>>), JInt(2), JStr(<<"x">>)}}

LoadDocs ==
    {[raw_text_lines |-> ls, blocks |-> bs] :
        ls \in UNION {[1..n -> LoadLines] : n \in 0..MaxLines},
        bs \in UNION {[1..n -> LoadBlocks] : n \in 0..MaxBlocks}}

InitLoad ==
    /\ \E json \in LoadDocs :
          Entry(json, Cfg(NormOff, MissingIntents, MissingRegexes, NoThresholds))
    /\ log = <<>>

SpecLoad == InitLoad /\ [][Next]_vars

(***************************************************************************)
(* SpecCalls: at most MaxCalls calls of run_engine, one after the other,   *)
(* each on any of four documents (one of them with a source_page that is   *)
(* not a number) and two dictionaries.                                     *)
(***************************************************************************)
MaxCalls == 3

CallDocs ==
    {[raw_text_lines |-> <<>>, blocks |-> <<>>],
     [raw_text_lines |-> <<>>,
      blocks |-> WithIds(<<[block_type |-> JStr("other"), text_raw |-> JStr(<<"n">>),
                           source_page |-> JInt(1)],
                         [block_type |-> JStr("other"), text_raw |-> JStr(<<"N">>),
                           source_page |-> JInt(2)]>>, TRUE)],
     [raw_text_lines |-> <<>>,
      blocks |-> WithIds(<<[block_type |-> JStr("other"), text_raw |-> JStr(<<"m", "L">>),
                           source_page |-> JInt(1)],
                         [block_type |-> JStr("producer"), text_raw |-> JStr(<<"M", "L", SP, "s">>),
                           source_page |-> JInt(1)]>>, TRUE)],
     [raw_text_lines |-> <<>>,
      blocks |-> WithIds(<<[block_type |-> JStr("other"), text_raw |-> JStr(<<"n">>),
                           source_page |-> JStr(<<"x">>)]>>, TRUE)]}

CallCfgs ==
    {Cfg(NormOff, FormatIntents, UnitRegexes, NoThresholds),
     Cfg(NormLower, FormatIntents, NoRegexes, NoThresholds)}

InitCalls ==
    /\ \E json \in CallDocs, cfg \in CallCfgs : Entry(json, cfg)
    /\ log = <<>>

\* The caller calls run_engine again once the call before has ended: a new
\* frame, with the locals of the ended call gone.
Call ==
    /\ pc \in {"done", "raised"}
    /\ Len(log) < MaxCalls
    /\ \E json \in CallDocs, cfg \in CallCfgs :
          /\ block_extractor_json' = json
          /\ patterns_cfg' = cfg
    /\ pc' = "load"
    /\ lines' = Unbound
    /\ blocks' = Unbound
    /\ scopes' = NoScopes
    /\ regexes' = NoRegexes
    /\ risks' = Unbound
    /\ result' = NoResult
    /\ UNCHANGED log

NextCalls == Next \/ Call

SpecCalls == InitCalls /\ [][NextCalls]_vars

(***************************************************************************)
(* SpecTitle: the title check.  Titles of two and three characters, bare   *)
(* and padded with white space, a title with a space inside, an empty and  *)
(* a blank title, and the text "ABC" in a block of another type; under the *)
(* dictionaries of SpecMissing and one whose intents and patterns match    *)
(* the title text.                                                         *)
(***************************************************************************)
TitlePool ==
    {<<"title", <<"A", "B">>>>, <<"title", <<"A", "B", "C">>>>,
     <<"title", <<SP, "A", "B", NL>>>>, <<"title", <<NL, "A", "B", "C", SP>>>>,
     <<"title", <<"A", SP, "B">>>>, <<"title", <<>>>>, <<"title", <<SP, NL, SP>>>>,
     <<"other", <<"A", "B", "C">>>>}

TitleCfgs ==
    MissingCfgs
    \cup {Cfg(NormLower,
              "net_content_intent" :> << <<"A", "B">> >> @@ "producer_intent" :> << <<"a">> >>,
              "standard_code" :> Rx(<< <<"A", "B", "C">> >>) @@ "sc_code" :> RxI(<< <<"b">> >>),
              NoThresholds)}

InitTitle ==
    /\ \E json \in Docs(TitlePool, {1}, {TRUE}), cfg \in TitleCfgs : Entry(json, cfg)
    /\ log = <<>>

SpecTitle == InitTitle /\ [][Next]_vars

(***************************************************************************)
(* SpecLabel: the label-present/value-absent rules.  The label "n" in both *)
(* cases, bare and followed by a fullwidth colon; the values "5" and "6";  *)
(* the standard label "g" and code "G"; the licence label "c" and code     *)
(* "sc".  One dictionary matches the texts as they are; one normalizes     *)
(* them and lists the net-content keywords "n:" and "N"; one normalizes    *)
(* them and has the single keyword "n:" for the three intents and no       *)
(* patterns.                                                               *)
(***************************************************************************)
LabelPool ==
    {<<"other", <<"n">>>>, <<"other", <<"N">>>>, <<"other", <<"n", FWColon>>>>,
     <<"other", <<"N", FWColon>>>>, <<"other", <<"5">>>>, <<"other", <<"6">>>>,
     <<"other", <<"g">>>>, <<"other", <<"G">>>>, <<"other", <<"c">>>>,
     <<"other", <<"s", "c">>>>}

LabelRegexes ==
    "net_content_value" :> Rx(<< <<"5">> >>)
    @@ "net_content_multi" :> Rx(<< <<"6">> >>)
    @@ "standard_code" :> Rx(<< <<"G">> >>)
    @@ "sc_code" :> RxI(<< <<"S", "C">> >>)

LabelCfgs ==
    {Cfg(NormOff,
         "net_content_intent" :> << <<"n">> >> @@ "standard_label_intent" :> << <<"g">> >>
         @@ "license_label_intent" :> << <<"c">> >>,
         LabelRegexes, NoThresholds),
     Cfg(NormAll,
         "net_content_intent" :> << <<"n", ":">>, <<"N">> >>
         @@ "standard_label_intent" :> << <<"g">> >>
         @@ "license_label_intent" :> << <<"c">> >>,
         LabelRegexes, NoThresholds),
     Cfg(NormAll,
         "net_content_intent" :> << <<"n", ":">> >>
         @@ "standard_label_intent" :> << <<"n", ":">> >>
         @@ "license_label_intent" :> << <<"n", ":">> >>,
         NoRegexes, NoThresholds)}

InitLabel ==
    /\ \E json \in Docs(LabelPool, 1..MaxPage, {TRUE}), cfg \in LabelCfgs : Entry(json, cfg)
    /\ log = <<>>

SpecLabel == InitLabel /\ [][Next]_vars

(***************************************************************************)
(* Properties                                                              *)
(***************************************************************************)
\* The number of findings of a risk type in a list.
CountType(rs, rt) == Cardinality({i \in 1..Len(rs) : rs[i].risk_type = rt})

\* The findings of a risk type, in the order of the list.
RECURSIVE OfType(_, _)
OfType(rs, rt) ==
    IF rs = <<>> THEN <<>>
    ELSE (IF Head(rs).risk_type = rt THEN <<Head(rs)>> ELSE <<>>) \o OfType(Tail(rs), rt)

\* The whole-document text as the rules match it, and the two keyword tests
\* of the relationship rule on it.
GlobalNorm == normalize_for_match(scopes.global_text_raw, patterns_cfg)

StrongMatches ==
    intent_match_any(GlobalNorm,
        get_intent_keywords(patterns_cfg, "entrusted_party_strong_intent"), patterns_cfg)

PrincipalMatches ==
    intent_match_any(GlobalNorm,
        get_intent_keywords(patterns_cfg, "principal_party_intent"), patterns_cfg)

\* C1 (evidence integrity): every finding of the returned risk_list whose
\* raw_snippet is not "N/A" names, by block_id, a block of the document whose
\* original text_raw contains the snippet as a contiguous substring.
C1_EvidenceIntegrity ==
    pc = "done" =>
        \A i \in 1..Len(result.risk_list) :
            result.risk_list[i].evidence.raw_snippet # NA =>
                \E k \in 1..Len(blocks) :
                    /\ blocks[k].block_id = result.risk_list[i].evidence.block_id
                    /\ Contains(blocks[k].text_raw, result.risk_list[i].evidence.raw_snippet)

\* C4 (relationship outcomes are mutually exclusive): rule_relationship adds
\* at most one finding; when a strong keyword matches the whole-document text
\* and no principal keyword does, it adds exactly one
\* incomplete_entrust_relationship and no entrusted_context_ambiguous,
\* whatever weak keywords are present; when a principal keyword matches it
\* adds none.
C4_RelationshipExclusive ==
    pc = "deduplicate" =>
        LET nInc == CountType(risks, "incomplete_entrust_relationship")
            nAmb == CountType(risks, "entrusted_context_ambiguous")
        IN  /\ nInc + nAmb <= 1
            /\ (StrongMatches /\ ~PrincipalMatches) => (nInc = 1 /\ nAmb = 0)
            /\ PrincipalMatches => nInc + nAmb = 0

\* C4's case: the strong trigger fires in a document where the weak trigger's
\* own conditions (count within the maximum, a weak keyword in a producer
\* context block) hold too.
C4_Witness ==
    /\ pc = "deduplicate"
    /\ StrongMatches
    /\ ~PrincipalMatches
    /\ weak_count(GlobalNorm,
           get_intent_keywords(patterns_cfg, "entrusted_party_weak_intent"), patterns_cfg) > 0
    /\ weak_count(GlobalNorm,
           get_intent_keywords(patterns_cfg, "entrusted_party_weak_intent"), patterns_cfg)
         <= weak_max(patterns_cfg)
    /\ WeakBlocks(blocks, patterns_cfg) # {}
    /\ CountType(risks, "incomplete_entrust_relationship") = 1
    /\ CountType(risks, "entrusted_context_ambiguous") = 0

\* A threshold as the configuration gives it: the configured number, 0
\* included, and 1 where the configuration has none.
Configured(name) ==
    IF name \in DOMAIN patterns_cfg.thresholds /\ patterns_cfg.thresholds[name].kind = "int"
    THEN patterns_cfg.thresholds[name].n
    ELSE 1

\* The blocks that contain a weak keyword and at least the configured number
\* of distinct producer-context keywords, by position.
ProducerContextBlocks ==
    {i \in 1..Len(blocks) :
        /\ contains_weak(blocks[i],
               get_intent_keywords(patterns_cfg, "entrusted_party_weak_intent"), patterns_cfg)
        /\ hits(blocks[i], get_intent_keywords(patterns_cfg, "producer_intent"), patterns_cfg)
             >= Configured("producer_context_keyword_min_hits_for_weak_entrust")}

\* C7 (entrusted-context-ambiguous trigger): with neither a strong nor a
\* principal keyword matching, rule_relationship adds exactly one
\* entrusted_context_ambiguous finding if and only if the summed count of weak
\* keywords is positive and at most the configured
\* entrust_weak_trigger_max_count and some block has a weak keyword and at
\* least the configured producer_context_keyword_min_hits_for_weak_entrust
\* producer keywords; the finding names the first such block.  For every
\* configured value, 0 included.
C7_WeakTriggerAsConfigured ==
    (pc = "deduplicate" /\ ~StrongMatches /\ ~PrincipalMatches) =>
        LET cnt == weak_count(GlobalNorm,
                       get_intent_keywords(patterns_cfg, "entrusted_party_weak_intent"),
                       patterns_cfg)
            amb == OfType(risks, "entrusted_context_ambiguous")
        IN  IF /\ cnt > 0
               /\ cnt <= Configured("entrust_weak_trigger_max_count")
               /\ ProducerContextBlocks # {}
            THEN /\ Len(amb) = 1
                 /\ \E i \in ProducerContextBlocks :
                        /\ \A j \in ProducerContextBlocks : i <= j
                        /\ amb[1].evidence.block_id = blocks[i].block_id
            ELSE Len(amb) = 0

\* The seven signals of rule_missing: the risk type, and whether the signal
\* is observed (an intent hit on the whole-document text, a block of the
\* signal's type, or a hit of one of its regexes; for the product name, a
\* title block whose trimmed text is longer than 2 characters).
Signals ==
    <<[risk_type |-> "missing_net_content",
       observed |-> \/ has_intent(scopes, patterns_cfg, "net_content_intent")
                    \/ has_regex(scopes, regexes, "net_content_value")
                    \/ has_regex(scopes, regexes, "net_content_multi")],
      [risk_type |-> "missing_product_name",
       observed |-> \E k \in 1..Len(blocks) :
                        /\ blocks[k].block_type = "title"
                        /\ Len(Strip(blocks[k].text_raw)) > 2],
      [risk_type |-> "missing_ingredient_list",
       observed |-> \/ has_intent(scopes, patterns_cfg, "ingredient_intent")
                    \/ has_block_type(scopes, "ingredient")],
      [risk_type |-> "missing_manufacturer_info",
       observed |-> \/ has_intent(scopes, patterns_cfg, "producer_intent")
                    \/ has_block_type(scopes, "producer")],
      [risk_type |-> "missing_date_shelf_life",
       observed |-> \/ has_intent(scopes, patterns_cfg, "date_shelf_life_intent")
                    \/ has_block_type(scopes, "date_shelf_life")
                    \/ has_regex(scopes, regexes, "date_ymd_numeric")
                    \/ has_regex(scopes, regexes, "date_ymd_cn")],
      [risk_type |-> "missing_standard_code",
       observed |-> \/ has_intent(scopes, patterns_cfg, "standard_label_intent")
                    \/ has_block_type(scopes, "standard")
                    \/ has_regex(scopes, regexes, "standard_code")],
      [risk_type |-> "missing_production_license",
       observed |-> \/ has_intent(scopes, patterns_cfg, "license_label_intent")
                    \/ has_block_type(scopes, "license")
                    \/ has_regex(scopes, regexes, "sc_code")]>>

\* C5 (missing-field rule): for each of the seven signals, rule_missing emits
\* exactly one finding of the signal's risk type, with block_id "N/A" and
\* raw_snippet "N/A", if and only if the signal's disjunction is false, and
\* none otherwise; it emits nothing else.
C5_MissingRule ==
    pc = "rule_format" =>
        /\ \A k \in 1..Len(Signals) :
              LET found == OfType(risks, Signals[k].risk_type)
              IN  IF Signals[k].observed THEN found = <<>>
                  ELSE /\ Len(found) = 1
                       /\ found[1].evidence = [block_id |-> "N/A", raw_snippet |-> NA]
        /\ \A i \in 1..Len(risks) :
              \E k \in 1..Len(Signals) : risks[i].risk_type = Signals[k].risk_type

\* C5's case: rule_missing has run on a document in which some signals are
\* observed and others are missing.
C5_Witness ==
    /\ pc = "rule_format"
    /\ CountType(risks, "missing_net_content") = 1
    /\ CountType(risks, "missing_production_license") = 0
    /\ Len(blocks) = 2
    /\ Len(risks) = 5

\* C6 (missing-field completeness): for a document with zero blocks and empty
\* text, under any configuration, the returned risk_list holds each of the
\* seven missing-field risk types exactly once.
C6_EmptyDocumentAllSeven ==
    (pc = "done" /\ blocks = <<>> /\ scopes.global_text_raw = <<>>) =>
        \A k \in 1..Len(Signals) : CountType(result.risk_list, Signals[k].risk_type) = 1

\* The findings the three rules produce for the loaded document, in the
\* order run_engine collects them: the list deduplicate is applied to.
Produced ==
    rule_missing(scopes, patterns_cfg, regexes)
    \o rule_format(scopes, patterns_cfg, regexes)
    \o rule_relationship(scopes, patterns_cfg, regexes)

\* C2 (dedup soundness): in the returned risk_list no two findings whose
\* raw_snippet is not "N/A" have the same risk_type and the same
\* normalize_for_dedup_key(raw_snippet), and no two findings of one risk_type
\* have the raw_snippet "N/A".
C2_DedupSound ==
    pc = "done" =>
        \A i, j \in 1..Len(result.risk_list) :
            LET a == result.risk_list[i]
                b == result.risk_list[j]
            IN  (i < j /\ a.risk_type = b.risk_type) =>
                    /\ ~(a.evidence.raw_snippet = NA /\ b.evidence.raw_snippet = NA)
                    /\ (a.evidence.raw_snippet # NA /\ b.evidence.raw_snippet # NA) =>
                           normalize_for_dedup_key(a.evidence.raw_snippet)
                             # normalize_for_dedup_key(b.evidence.raw_snippet)

\* C2's case: a call returned after deduplicate dropped a finding whose
\* snippet differs from the kept one's in case only.
C2_Witness ==
    /\ pc = "done"
    /\ log[1].json.blocks # <<>>
    /\ Len(result.risk_list) < Len(Produced)
    /\ \E i, j \in 1..Len(Produced) :
          /\ i < j
          /\ Produced[i].risk_type = Produced[j].risk_type
          /\ Produced[i].evidence.raw_snippet # Produced[j].evidence.raw_snippet
          /\ DedupKey(Produced[i]) = DedupKey(Produced[j])

\* The positions of a list that hold the first finding of their dedup key.
FirstOfKey(rs) ==
    {i \in 1..Len(rs) : \A j \in 1..(i - 1) : DedupKey(rs[j]) # DedupKey(rs[i])}

\* The findings of rs[1..n] at the positions in keep, in list order.
RECURSIVE Select(_, _, _)
Select(rs, keep, n) ==
    IF n = 0 THEN <<>>
    ELSE Select(rs, keep, n - 1) \o (IF n \in keep THEN <<rs[n]>> ELSE <<>>)

\* 1 for a missing-field finding, 2 for a format one, 3 for a relationship one.
Family(rt) ==
    IF rt \in {"incomplete_entrust_relationship", "entrusted_context_ambiguous"} THEN 3
    ELSE IF rt \in {"format_unit_case_inconsistent", "format_net_content_pattern_unusual",
                    "format_standard_code_pattern_unusual",
                    "format_license_code_pattern_unusual"} THEN 2
    ELSE 1

\* C3 (first finding per key, production order): the returned risk_list is
\* the produced list with, for each dedup key, exactly its first finding kept
\* and the later ones dropped, in the produced order; so every missing-field
\* finding precedes every format finding, which precedes every relationship
\* finding.
C3_KeepsFirstInOrder ==
    pc = "done" =>
        /\ result.risk_list = Select(Produced, FirstOfKey(Produced), Len(Produced))
        /\ \A i, j \in 1..Len(result.risk_list) :
              i < j => Family(result.risk_list[i].risk_type)
                         <= Family(result.risk_list[j].risk_type)

\* C3's case: the returned list has findings of the three families, and
\* deduplicate dropped a later finding attributed to another block than the
\* one it kept.
C3_Witness ==
    /\ pc = "done"
    /\ {Family(result.risk_list[i].risk_type) : i \in 1..Len(result.risk_list)} = {1, 2, 3}
    /\ \E i, j \in 1..Len(Produced) :
          /\ i < j
          /\ DedupKey(Produced[i]) = DedupKey(Produced[j])
          /\ Produced[i].evidence.block_id # Produced[j].evidence.block_id

\* The two unit-casing pairs of rule_format, in the order it checks them: the
\* regexes of the two variants, the one whose match is the evidence, and the
\* risk_logic text that tells the findings of the two pairs apart.
UnitPairs ==
    <<[a |-> "unit_ml_upper", b |-> "unit_ml_mixed", ev |-> "unit_ml_upper",
       logic |-> "Multiple casing variants for the same unit were detected in the same scope"],
      [a |-> "unit_l_upper", b |-> "unit_l_lower", ev |-> "unit_l_lower",
       logic |-> "Both uppercase and lowercase variants of the same unit were detected in the same scope"]>>

\* The positions of text where the configured regex of that name matches.
HitsOf(text, name) ==
    IF name \notin DOMAIN regexes THEN {}
    ELSE {i \in 1..(Len(text) + 1) :
             \E k \in 1..Len(regexes[name].pattern) :
                 LiteralAt(text, regexes[name].pattern[k], i, regexes[name].flags)}

\* The first match of the regex in text: at the leftmost position where it
\* matches, the first alternative that matches there.
FirstMatchOf(text, name) ==
    LET i == CHOOSE x \in HitsOf(text, name) : \A y \in HitsOf(text, name) : x <= y
        k == CHOOSE x \in 1..Len(regexes[name].pattern) :
                 /\ LiteralAt(text, regexes[name].pattern[x], i, regexes[name].flags)
                 /\ \A y \in 1..(x - 1) :
                        ~LiteralAt(text, regexes[name].pattern[y], i, regexes[name].flags)
    IN  Slice(text, i, i + Len(regexes[name].pattern[k]) - 1)

SinglePage == Len(scopes.page_text_raw) = 1

PageText == scopes.page_text_raw[1].text

\* Both variants of pair p match the page text.
BothMatch(p) ==
    /\ HitsOf(PageText, UnitPairs[p].a) # {}
    /\ HitsOf(PageText, UnitPairs[p].b) # {}

\* The findings of the returned risk_list for pair p.
PairFindings(p) ==
    SelectSeq(OfType(result.risk_list, "format_unit_case_inconsistent"),
              LAMBDA r : r.risk_logic = UnitPairs[p].logic)

\* The blocks whose text contains the snippet, by position (all blocks are on
\* the one page).
Holders(snippet) ==
    {k \in 1..Len(blocks) : blocks[k].text_raw # <<>> /\ Contains(blocks[k].text_raw, snippet)}

HasEvidence(p) == BothMatch(p) /\ FirstMatchOf(PageText, UnitPairs[p].ev) # <<>>

\* The finding of pair p has the dedup key of an earlier pair's finding.
Shadowed(p) ==
    \E q \in 1..(p - 1) :
        /\ HasEvidence(q)
        /\ normalize_for_dedup_key(FirstMatchOf(PageText, UnitPairs[q].ev))
             = normalize_for_dedup_key(FirstMatchOf(PageText, UnitPairs[p].ev))

C9_MalformedFieldsCoerced ==
    /\ pc # "raised"
    /\ pc \notin {"load", "raised"} =>
          /\ \A i \in 1..Len(blocks) :
                LET b == block_extractor_json.blocks[i]
                IN  /\ b.block_id.kind = "absent" => blocks[i].block_id = ""
                    /\ (b.source_page.kind = "absent"
                        \/ (b.source_page.kind = "str" /\ IntOfStrRaises(b.source_page.s)))
                         => blocks[i].source_page = 1
          /\ \A i \in 1..Len(lines) :
                LET l == block_extractor_json.raw_text_lines[i]
                IN  /\ l.line_id.kind = "absent" => lines[i].line_id = ""
                    /\ (l.source_page.kind = "absent"
                        \/ (l.source_page.kind = "str" /\ IntOfStrRaises(l.source_page.s)))
                         => lines[i].source_page = 1

\* C10 (determinism and statelessness): any two ended calls of run_engine on
\* the same document and configuration have the same outcome, the same result
\* with the same risk_list in the same order or the same exception, whatever
\* calls were made before or between them; and no step of a running call
\* changes the document or the configuration it was given.
C10_Deterministic ==
    /\ [](\A i, j \in 1..Len(log) :
             (log[i].json = log[j].json /\ log[i].cfg = log[j].cfg) =>
                 (log[i].raised = log[j].raised /\ log[i].result = log[j].result))
    /\ [][pc \notin {"done", "raised"} => args' = args]_vars

\* C10's case: three calls have ended, the first and the third on the same
\* inputs with a result that holds findings, the second on other inputs with
\* another result.
C10_Witness ==
    /\ Len(log) = 3
    /\ log[1].json = log[3].json
    /\ log[1].cfg = log[3].cfg
    /\ log[2].json # log[1].json
    /\ ~log[1].raised
    /\ Len(log[1].result.risk_list) > 7
    /\ log[3].result = log[1].result
    /\ log[2].result # log[1].result

\* The length of a text without its leading and trailing white space: from
\* the first character that is not white space to the last one.
TrimmedLength(t) ==
    LET ns == {i \in 1..Len(t) : ~IsSpace(t[i])}
    IN  IF ns = {} THEN 0
        ELSE (CHOOSE x \in ns : \A y \in ns : y <= x)
             - (CHOOSE x \in ns : \A y \in ns : x <= y) + 1

\* The title blocks of the loaded document, by position.
TitleBlocks == {k \in 1..Len(blocks) : blocks[k].block_type = "title"}

\* C11 (title threshold): the returned risk_list holds missing_product_name,
\* once, if and only if no block of type "title" has a text_raw whose
\* whitespace-trimmed length exceeds 2; so a document whose only title block
\* is "AB" yields it and one with a title block "ABC" does not, whatever the
\* intents and regexes of the dictionary.
C11_TitleThreshold ==
    pc = "done" =>
        /\ CountType(result.risk_list, "missing_product_name")
             = IF \E k \in TitleBlocks : TrimmedLength(blocks[k].text_raw) > 2 THEN 0 ELSE 1
        /\ (\E k \in TitleBlocks : blocks[k].text_raw = <<"A", "B", "C">>)
              => CountType(result.risk_list, "missing_product_name") = 0
        /\ (TitleBlocks # {} /\ \A k \in TitleBlocks : blocks[k].text_raw = <<"A", "B">>)
              => CountType(result.risk_list, "missing_product_name") = 1

\* C11's case: a call returned missing_product_name for a document whose
\* only title block is "AB" padded with white space, next to a block of
\* another type with the text "ABC", under a dictionary whose intents and
\* patterns match the title text.
C11_Witness ==
    /\ pc = "done"
    /\ Cardinality(TitleBlocks) = 1
    /\ Len(blocks) = 2
    /\ \E k \in TitleBlocks :
          /\ Len(blocks[k].text_raw) > 2
          /\ TrimmedLength(blocks[k].text_raw) = 2
    /\ \E k \in 1..Len(blocks) : k \notin TitleBlocks /\ blocks[k].text_raw = <<"A", "B", "C">>
    /\ "standard_code" \in DOMAIN regexes
    /\ CountType(result.risk_list, "missing_standard_code") = 0
    /\ CountType(result.risk_list, "missing_product_name") = 1

\* The three label intents: the intent, its value regexes, the risk type of
\* its finding and the fixed default token.
LabelIntents ==
    <<[intent |-> "net_content_intent", rx |-> {"net_content_value", "net_content_multi"},
       risk_type |-> "format_net_content_pattern_unusual",
       default |-> <<"U+51C0", "U+542B", "U+91CF">>],
      [intent |-> "standard_label_intent", rx |-> {"standard_code"},
       risk_type |-> "format_standard_code_pattern_unusual",
       default |-> <<"U+6267", "U+884C", "U+6807", "U+51C6">>],
      [intent |-> "license_label_intent", rx |-> {"sc_code"},
       risk_type |-> "format_license_code_pattern_unusual",
       default |-> <<"S", "C">>]>>

\* The keywords of label intent r.
KeywordsOf(r) == get_intent_keywords(patterns_cfg, LabelIntents[r].intent)

\* A keyword of intent r matches the match-normalized text, and none of the
\* regexes of r matches the raw text.
LabelDue(r, text) ==
    /\ \E i \in 1..Len(KeywordsOf(r)) :
          /\ normalize_for_match(KeywordsOf(r)[i], patterns_cfg) # <<>>
          /\ Contains(normalize_for_match(text, patterns_cfg),
                      normalize_for_match(KeywordsOf(r)[i], patterns_cfg))
    /\ \A name \in LabelIntents[r].rx : HitsOf(text, name) = {}

\* The places of text where the keyword stands, whatever the case.
PlacesOf(text, kw) ==
    {i \in 1..Len(text) : LiteralAt(text, kw, i, {"IGNORECASE"})}

\* The keyword as it is located verbatim in the text: the keyword itself
\* where it stands exactly, else the text at the first place where it stands
\* in another case.
Verbatim(text, kw) ==
    IF Contains(text, kw) THEN kw
    ELSE LET i == CHOOSE x \in PlacesOf(text, kw) : \A y \in PlacesOf(text, kw) : x <= y
         IN  Slice(text, i, i + Len(kw) - 1)

\* The snippet of the finding of intent r for a page text: the evidence of
\* the first keyword that can be located, else the default token.
LabelSnippet(r, text) ==
    LET found == {i \in 1..Len(KeywordsOf(r)) : PlacesOf(text, KeywordsOf(r)[i]) # {}}
    IN  IF found = {} THEN LabelIntents[r].default
        ELSE Verbatim(text, KeywordsOf(r)[CHOOSE x \in found : \A y \in found : x <= y])

\* The snippets due for intent r on the first n pages, page after page.
RECURSIVE SnippetsDue(_, _)
SnippetsDue(r, n) ==
    IF n = 0 THEN <<>>
    ELSE SnippetsDue(r, n - 1)
         \o (IF LabelDue(r, scopes.page_text_raw[n].text)
             THEN <<LabelSnippet(r, scopes.page_text_raw[n].text)>>
             ELSE <<>>)

\* The snippets of the findings of a risk type that rule_format produced.
SnippetsOf(rt) == [i \in 1..Len(OfType(risks, rt)) |-> OfType(risks, rt)[i].evidence.raw_snippet]

\* C12 (label present, value absent): for each of the three label intents,
\* rule_format produces one finding of the intent's risk type for a page if
\* and only if a keyword of the intent matches the page's match-normalized
\* text and none of the intent's regexes matches the page's raw text; the
\* findings come page after page, and the raw_snippet of each is the
\* evidence of the first keyword of the list that can be located verbatim in
\* the page text (exactly, else ignoring case), the default token being used
\* only when no keyword can be located.
C12_LabelWithoutValue ==
    pc = "rule_relationship" =>
        \A r \in 1..Len(LabelIntents) :
            SnippetsOf(LabelIntents[r].risk_type) = SnippetsDue(r, Len(scopes.page_text_raw))

\* C12's case: rule_format has run on two pages that both carry the
\* net-content label and no value; on the first page the first keyword
\* cannot be located and the second one stands in another case, so the
\* snippet is the page's own spelling; on the second page the keyword stands
\* exactly.
C12_Witness ==
    /\ pc = "rule_relationship"
    /\ Len(scopes.page_text_raw) = 2
    /\ Len(KeywordsOf(1)) = 2
    /\ PlacesOf(scopes.page_text_raw[1].text, KeywordsOf(1)[1]) = {}
    /\ ~Contains(scopes.page_text_raw[1].text, KeywordsOf(1)[2])
    /\ Contains(scopes.page_text_raw[2].text, KeywordsOf(1)[2])
    /\ SnippetsOf("format_net_content_pattern_unusual") = << <<"n">>, <<"N">> >>

\* The positions of the pages of page_text_raw on which intent r is due with
\* a snippet of the dedup key of sn.
PagesWithKey(r, sn) ==
    {n \in 1..Len(scopes.page_text_raw) :
        /\ LabelDue(r, scopes.page_text_raw[n].text)
        /\ normalize_for_dedup_key(LabelSnippet(r, scopes.page_text_raw[n].text))
             = normalize_for_dedup_key(sn)}

\* The texts of the blocks of a page among blocks[1..n], in input order, each
\* followed by a line break.
RECURSIVE TextOfPage(_, _)
TextOfPage(page, n) ==
    IF n = 0 THEN <<>>
    ELSE TextOfPage(page, n - 1)
         \o (IF blocks[n].source_page = page /\ blocks[n].text_raw # <<>>
             THEN blocks[n].text_raw \o <<NL>> ELSE <<>>)

\* C13 (page ordering): build_scopes yields the per-page texts in ascending
\* page number, one for each page of the document, each the concatenation of
\* the page's blocks in input order, whatever the order of the blocks; and of
\* the label findings with one dedup key that several pages produce, the one
\* in the returned risk_list is the finding of the lowest-numbered page.
C13_PagesAscending ==
    /\ pc \in {"compile_regexes", "rule_missing", "rule_format", "rule_relationship",
               "deduplicate", "return", "done"} =>
          /\ {scopes.page_text_raw[n].page : n \in 1..Len(scopes.page_text_raw)}
               = {blocks[k].source_page : k \in 1..Len(blocks)}
          /\ \A n \in 1..Len(scopes.page_text_raw) :
                scopes.page_text_raw[n].text = TextOfPage(scopes.page_text_raw[n].page, Len(blocks))
          /\ \A i, j \in 1..Len(scopes.page_text_raw) :
                i < j => scopes.page_text_raw[i].page < scopes.page_text_raw[j].page
    /\ pc = "done" =>
          \A r \in 1..Len(LabelIntents) :
              \A i \in 1..Len(OfType(result.risk_list, LabelIntents[r].risk_type)) :
                  LET f == OfType(result.risk_list, LabelIntents[r].risk_type)[i]
                      from == PagesWithKey(r, f.evidence.raw_snippet)
                      low == CHOOSE n \in from :
                                 \A m \in from : scopes.page_text_raw[n].page
                                                   <= scopes.page_text_raw[m].page
                  IN  /\ f.evidence.raw_snippet = LabelSnippet(r, scopes.page_text_raw[low].text)
                      /\ \A k \in 1..Len(blocks) :
                            blocks[k].block_id = f.evidence.block_id
                              => blocks[k].source_page = scopes.page_text_raw[low].page

=============================================================================
